---- MODULE Spec2Model ----
(***************************************************************************)
(* alarmsScheduler/src/index.py: the Lambda handler that validates a       *)
(* request and manages CloudWatch Events rules (create, query, update,     *)
(* delete) for the alarmsExecuter function.                                *)
(*                                                                         *)
(* An invocation of handler() is a process p.  Its local computation is    *)
(* atomic; every call of a boto3 client is one step of its own, so that    *)
(* invocations can interleave between calls.  The rule store of the        *)
(* events service is the shared state (rules, targets).                    *)
(*                                                                         *)
(* Strings the code inspects are modelled by their structure:              *)
(*   an id is the sequence of its characters;                              *)
(*   a date string is the sequence of its numeric fields, so               *)
(*     "2030-01-01 09:30:00" is <<2030,1,1,9,30,0>>, "2030-01-01" is       *)
(*     <<2030,1,1>> and '' is <<>>.                                        *)
(***************************************************************************)
EXTENDS Integers, Sequences, FiniteSets, TLC

VARIABLES
    rules,      \* events service: rule name -> [ScheduleExpression, State]
    targets,    \* events service: rule name -> set of attached targets
    pc,         \* per invocation: where handler() stands
    req,        \* per invocation: the event being handled
    loc,        \* per invocation: local variables that outlive a client call
    resp,       \* per invocation: what handler() returned
    calls,      \* per invocation: the client calls issued so far, in order
    pre,        \* per invocation: the rule store when the event arrived
    prior,      \* per invocation: the create that returned 200 just before
                \* the event being handled, if the previous event was one
    faulty,     \* whether the services may fail a call they could serve
    concurrent  \* whether invocations may overlap

vars == <<rules, targets, pc, req, loc, resp, calls, pre, prior, faulty,
          concurrent>>

Procs == {1, 2}

----------------------------------------------------------------------------
(* Inputs *)

Name1 == <<"j", "-", "1">>
Name2 == <<"A", ".", "_">>
BadName == <<"j", " ", "1">>
NoName == <<>>

Date1 == <<2030, 1, 1, 9, 30, 0>>
Date2 == <<2028, 2, 29, 23, 5, 59>>
DateOnly == <<2030, 1, 1>>
DateFeb30 == <<2030, 2, 30, 9, 30, 0>>
NoDate == <<>>

\* The values a key may carry; the empty value stands for an absent key.
IdValues == {NoName, Name1, Name2, BadName}
DateValues == {NoDate, Date1, Date2, DateOnly, DateFeb30}
StateValues == {"", "enabled", "DISABLED", "paused"}

NotJson == [wellformed |-> FALSE, keys |-> {}, action |-> "",
            id |-> NoName, date |-> NoDate, state |-> ""]

\* A JSON object body holding the keys whose value is not empty.
Body(hasAction, action, id, date, state) ==
    [wellformed |-> TRUE,
     keys |-> (IF hasAction THEN {"action"} ELSE {})
              \cup (IF id # NoName THEN {"id"} ELSE {})
              \cup (IF date # NoDate THEN {"date"} ELSE {})
              \cup (IF state # "" THEN {"state"} ELSE {}),
     action |-> action, id |-> id, date |-> date, state |-> state]

\* Bodies carry the keys their action reads.
Bodies(ids, dates, states) ==
    { Body(TRUE, "create", i, d, "") : i \in ids, d \in dates }
    \cup { Body(TRUE, "query", i, NoDate, "") : i \in ids }
    \cup { Body(TRUE, "delete", i, NoDate, "") : i \in ids }
    \cup { Body(TRUE, "update", i, d, s) : i \in ids, d \in dates, s \in states }

OddBodies ==
    { NotJson,
      Body(FALSE, "", Name1, Date1, ""),
      Body(TRUE, "", Name1, Date1, ""),
      Body(TRUE, "purge", Name1, Date1, "") }

SeqEvents ==
    [httpMethod : {"POST"},
     body : Bodies(IdValues, DateValues, StateValues) \cup OddBodies]
    \cup [httpMethod : {"GET"},
          body : OddBodies \cup {Body(TRUE, "create", Name1, Date1, "")}]

ConcEvents ==
    [httpMethod : {"POST"},
     body : { Body(TRUE, "create", Name1, Date1, ""),
              Body(TRUE, "query", Name1, NoDate, ""),
              Body(TRUE, "query", NoName, NoDate, ""),
              Body(TRUE, "delete", Name1, NoDate, ""),
              Body(TRUE, "update", Name1, Date2, ""),
              Body(TRUE, "update", Name1, NoDate, "DISABLED") }]

----------------------------------------------------------------------------
(* Pure helpers of index.py *)

NameChars ==
    {".", "-", "_"}
    \cup {"A", "B", "Z", "a", "j", "z"}
    \cup {"0", "1", "2", "9"}

\* re.fullmatch("[\\.\\-_A-Za-z0-9]+", name)
validate_name(name) ==
    /\ Len(name) >= 1
    /\ \A k \in 1..Len(name) : name[k] \in NameChars

IsLeap(y) == (y % 4 = 0 /\ y % 100 # 0) \/ y % 400 = 0

DaysInMonth(y, m) ==
    IF m = 2 THEN (IF IsLeap(y) THEN 29 ELSE 28)
    ELSE IF m \in {4, 6, 9, 11} THEN 30 ELSE 31

\* Whether datetime.strptime(strDate, "%Y-%m-%d %H:%M:%S") returns a value.
Parses(strDate) ==
    /\ Len(strDate) = 6
    /\ strDate[1] \in 1..9999
    /\ strDate[2] \in 1..12
    /\ strDate[3] \in 1..DaysInMonth(strDate[1], strDate[2])
    /\ strDate[4] \in 0..23
    /\ strDate[5] \in 0..59
    /\ strDate[6] \in 0..59

NoDatetime == [parsed |-> FALSE, year |-> 0, month |-> 0, day |-> 0,
               hour |-> 0, minute |-> 0, second |-> 0]

\* validate_date: the datetime, or '' (falsy) when strptime raises.
validate_date(strDate) ==
    IF Parses(strDate)
    THEN [parsed |-> TRUE, year |-> strDate[1], month |-> strDate[2],
          day |-> strDate[3], hour |-> strDate[4], minute |-> strDate[5],
          second |-> strDate[6]]
    ELSE NoDatetime

\* requestBody[parameterName], or '' on KeyError
read_body_parameter(requestBody, parameterName) ==
    IF parameterName \in requestBody.keys
    THEN requestBody[parameterName]
    ELSE IF parameterName \in {"id", "date"} THEN <<>> ELSE ""

\* 'cron(%s %s * * ? *)' % (datetime_object.minute, datetime_object.hour)
Swapped_cron_expression(datetime_object) ==
    [fmt |-> "cron(%s %s * * ? *)",
     args |-> <<datetime_object.hour, datetime_object.minute>>]

cron_expression(datetime_object) ==
    [fmt |-> "cron(%s %s * * ? *)",
     args |-> <<datetime_object.minute, datetime_object.hour>>]

NoCron == [fmt |-> "None", args |-> <<>>]

\* state.upper()
upper(state) ==
    CASE state = "enabled" -> "ENABLED"
      [] state = "paused" -> "PAUSED"
      [] OTHER -> state

Headers ==
    [AllowHeaders |-> "*", AllowOrigin |-> "*", AllowMethods |-> "POST"]

\* A response message: a text, or the rule descriptions of a query.
Text(t) == [text |-> t, arn |-> <<>>, rules |-> {}]
TextArn(t, arn) == [text |-> t, arn |-> arn, rules |-> {}]
Listing(ds) == [text |-> "", arn |-> <<>>, rules |-> ds]

\* The body is json.dumps(responseMessage), kept here as the message itself.
json_response(responseMessage, code) ==
    [statusCode |-> code, headers |-> Headers, body |-> responseMessage]

\* handler() ended without a return statement (None)
NoResponse == [statusCode |-> 0, headers |-> Headers, body |-> Text("None")]
\* handler() ended by an exception nothing caught
Unhandled == [statusCode |-> 0, headers |-> Headers, body |-> Text("raised")]
\* handler() has not ended
Pending == [statusCode |-> 0, headers |-> Headers, body |-> Text("")]

MsgJson == "JSONDecodeError"
MsgMethod == "Please use POST httpMethod for this endPoint"
MsgAction == "The action on the body request should be: create, query, delete or update."
MsgActionKey == "There was an error reading the action on the body request"
MsgNoId == "The id on the body request cannot be empty"
MsgNoDate == "You must provide a date for the event"
MsgPattern == "The rule's id must satisfy regular expression pattern: [\\.\\-_A-Za-z0-9]+"
MsgBadDate == "There was an issue reading the date. Provide a date with a valid format e.g. yyyy-mm-dd HH:MM:ss"
MsgNoChange == "You must provide a date or a state to update the event"
MsgBadState == "The state must be either ENABLED or DISABLED"
MsgCreated == "New Rule created successfully: "
MsgUpdated == "Rule updated successfully: "
MsgDeleted == "Rule deleted successfully"
MsgUnbound == "local variable 'delete_rule_response' referenced before assignment"

\* str(e) of the exceptions the events client raises
ErrNotFound == "ResourceNotFoundException"
ErrHasTargets == "ValidationException: Rule can't be deleted since it has targets."
ErrInternal == "InternalException"

----------------------------------------------------------------------------
(* The events service and the lambda service, as the handler uses them *)

NoRules == [n \in {} |-> 0]

Describe(store, name) ==
    [Name |-> name,
     ScheduleExpression |-> store[name].ScheduleExpression,
     State |-> store[name].State]

NoDescription == [Name |-> NoName, ScheduleExpression |-> NoCron, State |-> ""]

RuleArn(name) == <<"r", "u", "l", "e", "/">> \o name

ExecuterArn == "arn:aws:lambda:function:alarmsExecuter-ENV"

\* put_rule(Name, ScheduleExpression, State): creates the rule or overwrites
\* its schedule and state; the targets of an existing rule stay attached.
RulesAfterPut(name, schedule, state) ==
    [n \in (DOMAIN rules) \cup {name} |->
        IF n = name THEN [ScheduleExpression |-> schedule, State |-> state]
        ELSE rules[n]]

TargetsAfterPut(name) ==
    [n \in (DOMAIN targets) \cup {name} |->
        IF n \in DOMAIN targets THEN targets[n] ELSE {}]

\* put_targets(Rule, Targets=[t]): a target with the same Id is replaced.
TargetsAfterAttach(name, t) ==
    [targets EXCEPT ![name] = {u \in @ : u.Id # t.Id} \cup {t}]

\* remove_targets(Rule, Ids=[id])
TargetsAfterDetach(name, id) ==
    [targets EXCEPT ![name] = {u \in @ : u.Id # id}]

\* delete_rule(Name)
RulesAfterDelete(name) == [n \in (DOMAIN rules) \ {name} |-> rules[n]]
TargetsAfterDelete(name) == [n \in (DOMAIN targets) \ {name} |-> targets[n]]

\* What a call may do: be served, or (a faulty service) fail although it
\* could be served.  refusal is the error of a call that cannot be served.
Results(servable, mayBeFalsy) ==
    IF ~servable THEN {"raised"}
    ELSE {"ok"} \cup (IF faulty THEN {"raised"} ELSE {})
                \cup (IF faulty /\ mayBeFalsy THEN {"falsy"} ELSE {})

ErrorOf(servable, refusal) == IF servable THEN ErrInternal ELSE refusal

----------------------------------------------------------------------------
(* handler() and the four operations, up to their first client call *)

ParamName(requestBody) == read_body_parameter(requestBody, "id")
ParamDate(requestBody) == read_body_parameter(requestBody, "date")
ParamState(requestBody) == read_body_parameter(requestBody, "state")

\* handler, lines 14-34: the response it returns early, or Pending.
handler_entry(event) ==
    IF ~event.body.wellformed
    THEN json_response(Text(MsgJson), 400)
    ELSE IF event.httpMethod # "POST"
    THEN json_response(Text(MsgMethod), 405)
    ELSE IF "action" \notin event.body.keys
    THEN json_response(Text(MsgActionKey), 400)
    ELSE IF /\ event.body.action = ""
            /\ event.body.action # "create" /\ event.body.action # "query"
            /\ event.body.action # "delete" /\ event.body.action # "update"
    THEN json_response(Text(MsgAction), 400)
    ELSE Pending

\* create_rule, lines 86-105
create_rule_checks(requestBody) ==
    IF ParamName(requestBody) = <<>>
    THEN json_response(Text(MsgNoId), 400)
    ELSE IF ParamDate(requestBody) = <<>>
    THEN json_response(Text(MsgNoDate), 400)
    ELSE IF ~validate_name(ParamName(requestBody))
    THEN json_response(Text(MsgPattern), 400)
    ELSE IF ~validate_date(ParamDate(requestBody)).parsed
    THEN json_response(Text(MsgBadDate), 400)
    ELSE Pending

\* query_rule, lines 63-73
query_rule_checks(requestBody) ==
    IF ParamName(requestBody) = <<>>
    THEN Pending
    ELSE IF ~validate_name(ParamName(requestBody))
    THEN json_response(Text(MsgPattern), 400)
    ELSE Pending

\* update_rule, lines 138-160
update_rule_checks(requestBody) ==
    IF ParamName(requestBody) = <<>>
    THEN json_response(Text(MsgNoId), 400)
    ELSE IF ParamDate(requestBody) = <<>> /\ ParamState(requestBody) = ""
    THEN json_response(Text(MsgNoChange), 400)
    ELSE IF ~validate_name(ParamName(requestBody))
    THEN json_response(Text(MsgPattern), 400)
    ELSE IF /\ ParamState(requestBody) # ""
            /\ upper(ParamState(requestBody)) # "ENABLED"
            /\ upper(ParamState(requestBody)) # "DISABLED"
    THEN json_response(Text(MsgBadState), 400)
    ELSE Pending

\* delete_rule, lines 186-194
delete_rule_checks(requestBody) ==
    IF ParamName(requestBody) = <<>>
    THEN json_response(Text(MsgNoId), 400)
    ELSE IF ~validate_name(ParamName(requestBody))
    THEN json_response(Text(MsgPattern), 400)
    ELSE Pending

\* handler, lines 48-58: the operation's early response; an action that is
\* none of the four runs no branch and handler() returns None.
dispatch_checks(requestBody) ==
    CASE requestBody.action = "create" -> create_rule_checks(requestBody)
      [] requestBody.action = "query" -> query_rule_checks(requestBody)
      [] requestBody.action = "update" -> update_rule_checks(requestBody)
      [] requestBody.action = "delete" -> delete_rule_checks(requestBody)
      [] OTHER -> NoResponse

\* The first client call of the operation that passed its checks.
first_call(requestBody) ==
    CASE requestBody.action = "create" -> "put_rule"
      [] requestBody.action = "query" ->
            IF ParamName(requestBody) = <<>> THEN "list_rules" ELSE "describe_rule"
      [] requestBody.action = "update" -> "describe_rule"
      [] requestBody.action = "delete" -> "remove_targets"
      [] OTHER -> "done"

----------------------------------------------------------------------------
(* State *)

NoLocals == [executerArn |-> "", query_result |-> NoDescription]

Call(op, name, result) == [op |-> op, name |-> name, result |-> result]

Ops(p) == {calls[p][k].op : k \in 1..Len(calls[p])}

Idle(p) == pc[p] \in {"idle", "done"}

NoPrior == [id |-> NoName, date |-> NoDate]

InitWith(f, c) ==
    /\ rules = NoRules
    /\ targets = NoRules
    /\ pc = [p \in Procs |-> "idle"]
    /\ req = [p \in Procs |-> [httpMethod |-> "POST", body |-> NotJson]]
    /\ loc = [p \in Procs |-> NoLocals]
    /\ resp = [p \in Procs |-> Pending]
    /\ calls = [p \in Procs |-> <<>>]
    /\ pre = [p \in Procs |-> [rules |-> NoRules, targets |-> NoRules]]
    /\ prior = [p \in Procs |-> NoPrior]
    /\ faulty = f
    /\ concurrent = c

\* handler() returns: its locals are gone
Return(p, response) ==
    /\ pc' = [pc EXCEPT ![p] = "done"]
    /\ resp' = [resp EXCEPT ![p] = response]
    /\ loc' = [loc EXCEPT ![p] = NoLocals]

Goto(p, label) ==
    /\ pc' = [pc EXCEPT ![p] = label]
    /\ UNCHANGED resp

Issue(p, op, name, result) ==
    calls' = [calls EXCEPT ![p] = Append(@, Call(op, name, result))]

Store == [rules |-> rules, targets |-> targets]

----------------------------------------------------------------------------
(* Steps of an invocation *)

\* An event arrives; handler lines 8-34.  Without concurrency the events are
\* handled one after the other.
Receive(p) ==
    /\ Idle(p)
    /\ concurrent \/ p = 1
    /\ \E event \in (IF concurrent THEN ConcEvents ELSE SeqEvents) :
        /\ req' = [req EXCEPT ![p] = event]
        /\ calls' = [calls EXCEPT ![p] = <<>>]
        /\ pre' = [pre EXCEPT ![p] = Store]
        /\ prior' = [prior EXCEPT ![p] =
                IF /\ pc[p] = "done" /\ resp[p].statusCode = 200
                   /\ req[p].body.action = "create"
                THEN [id |-> ParamName(req[p].body),
                      date |-> ParamDate(req[p].body)]
                ELSE NoPrior]
        /\ IF handler_entry(event) = Pending
           THEN /\ pc' = [pc EXCEPT ![p] = "get_function"]
                /\ resp' = [resp EXCEPT ![p] = Pending]
                /\ loc' = [loc EXCEPT ![p] = NoLocals]
           ELSE Return(p, handler_entry(event))
    /\ UNCHANGED <<rules, targets, faulty, concurrent>>

\* handler lines 36-58: lambdaClient.get_function, then the dispatch and the
\* operation's checks.  An exception of get_function is caught by nobody.
GetFunction(p) ==
    /\ pc[p] = "get_function"
    /\ \E result \in Results(TRUE, FALSE) :
        /\ Issue(p, "get_function", NoName, result)
        /\ IF result = "raised"
           THEN Return(p, Unhandled)
           ELSE IF dispatch_checks(req[p].body) # Pending
           THEN Return(p, dispatch_checks(req[p].body))
           ELSE /\ Goto(p, first_call(req[p].body))
                /\ loc' = [loc EXCEPT ![p].executerArn = ExecuterArn]
    /\ UNCHANGED <<rules, targets, req, pre, prior, faulty, concurrent>>

\* query_rule lines 66-68
ListRules(p) ==
    /\ pc[p] = "list_rules"
    /\ \E result \in Results(TRUE, FALSE) :
        /\ Issue(p, "list_rules", NoName, result)
        /\ IF result = "raised"
           THEN Return(p, json_response(Text(ErrInternal), 400))
           ELSE Return(p, json_response(
                    Listing({Describe(rules, n) : n \in DOMAIN rules}), 200))
    /\ UNCHANGED <<rules, targets, req, pre, prior, faulty, concurrent>>

\* query_rule lines 75-81 and update_rule lines 168-170
DescribeRule(p) ==
    /\ pc[p] = "describe_rule"
    /\ LET name == ParamName(req[p].body)
           servable == name \in DOMAIN rules
       IN \E result \in Results(servable, FALSE) :
        /\ Issue(p, "describe_rule", name, result)
        /\ IF result = "raised"
           THEN Return(p, json_response(Text(ErrorOf(servable, ErrNotFound)), 400))
           ELSE IF req[p].body.action = "query"
           THEN Return(p, json_response(Listing({Describe(rules, name)}), 200))
           ELSE /\ Goto(p, "put_rule")
                /\ loc' = [loc EXCEPT ![p].query_result = Describe(rules, name)]
    /\ UNCHANGED <<rules, targets, req, pre, prior, faulty, concurrent>>

\* update_rule lines 174-175: ScheduleExpression of the put_rule call
Fresh_update_schedule(date, query_result) ==
    IF date # <<>> /\ validate_date(date).parsed
    THEN cron_expression(validate_date(date))
    ELSE IF query_result.Name \in DOMAIN rules
    THEN rules[query_result.Name].ScheduleExpression
    ELSE query_result.ScheduleExpression

update_schedule(date, query_result) ==
    IF date # <<>> /\ validate_date(date).parsed
    THEN cron_expression(validate_date(date))
    ELSE query_result.ScheduleExpression

\* update_rule line 176: State of the put_rule call
Enabled_update_state(state, query_result) ==
    IF state # "" THEN upper(state) ELSE "ENABLED"

update_state(state, query_result) ==
    IF state # "" THEN upper(state) ELSE query_result.State

\* create_rule lines 107-115 and update_rule lines 172-182
PutRule(p) ==
    /\ pc[p] = "put_rule"
    /\ LET body == req[p].body
           name == ParamName(body)
           schedule ==
               IF body.action = "create"
               THEN cron_expression(validate_date(ParamDate(body)))
               ELSE update_schedule(ParamDate(body), loc[p].query_result)
           state ==
               IF body.action = "create" THEN "ENABLED"
               ELSE update_state(ParamState(body), loc[p].query_result)
       IN \E result \in Results(TRUE, FALSE) :
        /\ Issue(p, "put_rule", name, result)
        /\ IF result = "raised"
           THEN /\ Return(p, json_response(Text(ErrInternal), 400))
                /\ UNCHANGED <<rules, targets>>
           ELSE /\ rules' = RulesAfterPut(name, schedule, state)
                /\ targets' = TargetsAfterPut(name)
                /\ IF body.action = "create"
                   THEN Goto(p, "put_targets") /\ UNCHANGED loc
                   ELSE Return(p, json_response(
                            TextArn(MsgUpdated, RuleArn(name)), 200))
    /\ UNCHANGED <<req, pre, prior, faulty, concurrent>>

\* create_rule lines 118-127: the target put_targets attaches
create_target(name, executerArn) ==
    [Arn |-> executerArn, Id |-> name,
     Input |-> <<"{ \"id\" : ">> \o name \o <<" }">>]

\* create_rule lines 117-133
PutTargets(p) ==
    /\ pc[p] = "put_targets"
    /\ LET name == ParamName(req[p].body)
           servable == name \in DOMAIN rules
       IN \E result \in Results(servable, FALSE) :
        /\ Issue(p, "put_targets", name, result)
        /\ IF result = "raised"
           THEN /\ Return(p, json_response(Text(ErrorOf(servable, ErrNotFound)), 400))
                /\ UNCHANGED targets
           ELSE /\ targets' = TargetsAfterAttach(name,
                                 create_target(name, loc[p].executerArn))
                /\ Return(p, json_response(
                       TextArn(MsgCreated, RuleArn(name)), 200))
    /\ UNCHANGED <<rules, req, pre, prior, faulty, concurrent>>

\* delete_rule line 205: whether delete_rule is called after remove_targets
Always_delete_after(remove_targets_response) == TRUE

delete_after(remove_targets_response) == remove_targets_response = "ok"

\* delete_rule lines 211-215 when line 205 skipped the delete: the name
\* delete_rule_response is unbound, and the UnboundLocalError is caught.
None_skipped_delete_response == NoResponse

skipped_delete_response == json_response(Text(MsgUnbound), 400)

\* delete_rule lines 196-205, and 211-215 when line 205 skips the delete:
\* delete_rule_response is then unbound at line 211, the UnboundLocalError
\* is caught at line 214.
RemoveTargets(p) ==
    /\ pc[p] = "remove_targets"
    /\ LET name == ParamName(req[p].body)
           servable == name \in DOMAIN rules
       IN \E result \in Results(servable, TRUE) :
        /\ Issue(p, "remove_targets", name, result)
        /\ IF result = "raised"
           THEN /\ Return(p, json_response(Text(ErrorOf(servable, ErrNotFound)), 400))
                /\ UNCHANGED targets
           ELSE /\ targets' = IF result = "ok"
                              THEN TargetsAfterDetach(name, name)
                              ELSE targets
                /\ IF delete_after(result)
                   THEN Goto(p, "delete_rule") /\ UNCHANGED loc
                   ELSE Return(p, skipped_delete_response)
    /\ UNCHANGED <<rules, req, pre, prior, faulty, concurrent>>

\* delete_rule lines 206-215; a falsy response leaves the function without
\* a return statement.
DeleteRule(p) ==
    /\ pc[p] = "delete_rule"
    /\ LET name == ParamName(req[p].body)
           servable == name \notin DOMAIN rules \/ targets[name] = {}
       IN \E result \in Results(servable, TRUE) :
        /\ Issue(p, "delete_rule", name, result)
        /\ IF result = "raised"
           THEN /\ Return(p, json_response(Text(ErrorOf(servable, ErrHasTargets)), 400))
                /\ UNCHANGED <<rules, targets>>
           ELSE IF result = "falsy"
           THEN /\ Return(p, NoResponse)
                /\ UNCHANGED <<rules, targets>>
           ELSE /\ rules' = RulesAfterDelete(name)
                /\ targets' = TargetsAfterDelete(name)
                /\ Return(p, json_response(Text(MsgDeleted), 200))
    /\ UNCHANGED <<req, pre, prior, faulty, concurrent>>

Next ==
    \E p \in Procs :
        \/ Receive(p)
        \/ GetFunction(p)
        \/ ListRules(p)
        \/ DescribeRule(p)
        \/ PutRule(p)
        \/ PutTargets(p)
        \/ RemoveTargets(p)
        \/ DeleteRule(p)

\* One invocation at a time; the services may fail any call.
Init == InitWith(TRUE, FALSE)
Spec == Init /\ [][Next]_vars

\* One invocation at a time; the services serve every call they can.
InitReliable == InitWith(FALSE, FALSE)
SpecReliable == InitReliable /\ [][Next]_vars

\* Overlapping invocations; the services serve every call they can.
InitConcurrent == InitWith(FALSE, TRUE)
SpecConcurrent == InitConcurrent /\ [][Next]_vars

----------------------------------------------------------------------------
(* Properties *)

Done(p) == pc[p] = "done"

\* The event of p is a well-formed POST of the given action.
Requested(p, action) ==
    /\ req[p].httpMethod = "POST"
    /\ req[p].body.wellformed
    /\ "action" \in req[p].body.keys
    /\ req[p].body.action = action

NameOf(p) == ParamName(req[p].body)
DateOf(p) == ParamDate(req[p].body)
StateOf(p) == ParamState(req[p].body)

RuleOps == {"put_rule", "put_targets", "describe_rule", "list_rules",
            "remove_targets", "delete_rule"}

\* The result of p's call of op, "" when p has not called it.
ResultOf(p, op) ==
    IF op \in Ops(p)
    THEN (CHOOSE c \in {calls[p][k] : k \in 1..Len(calls[p])} : c.op = op).result
    ELSE ""

\* cron(<minute> <hour> * * ? *) of a date string's fields
CronOfDate(date) == [fmt |-> "cron(%s %s * * ? *)", args |-> <<date[5], date[4]>>]

\* C1: every request whose httpMethod is not POST is answered with 405,
\* whatever its body.
C1_NonPostIs405 ==
    \A p \in Procs :
        (Done(p) /\ req[p].httpMethod # "POST") => resp[p].statusCode = 405

\* C2: a POST with a JSON body whose action is missing, empty or none of
\* create, query, update, delete is answered with 400, and no call of the
\* events service is made.
C2_UnknownActionIs400 ==
    \A p \in Procs :
        ( /\ Done(p)
          /\ req[p].httpMethod = "POST"
          /\ req[p].body.wellformed
          /\ \/ "action" \notin req[p].body.keys
             \/ req[p].body.action \notin {"create", "query", "update", "delete"} )
        => /\ resp[p].statusCode = 400
           /\ Ops(p) \cap RuleOps = {}

\* C3: a create(id, date) that returned 200 leaves the rule id ENABLED with
\* the schedule cron(<minute> <hour> * * ? *) of the date and with the one
\* target named id that points at the executer; the query(id) handled next
\* returns 200 with that schedule.
C3_CreateThenQuery ==
    \A p \in Procs :
        /\ (Done(p) /\ Requested(p, "create") /\ resp[p].statusCode = 200)
           => /\ validate_name(NameOf(p))
              /\ Len(DateOf(p)) = 6
              /\ NameOf(p) \in DOMAIN rules
              /\ rules[NameOf(p)] =
                    [ScheduleExpression |-> CronOfDate(DateOf(p)),
                     State |-> "ENABLED"]
              /\ Cardinality(targets[NameOf(p)]) = 1
              /\ \A t \in targets[NameOf(p)] :
                    t.Id = NameOf(p) /\ t.Arn = ExecuterArn
        /\ ( /\ Done(p) /\ Requested(p, "query")
             /\ prior[p] # NoPrior /\ NameOf(p) = prior[p].id )
           => /\ resp[p].statusCode = 200
              /\ resp[p].body.rules =
                    {[Name |-> prior[p].id,
                      ScheduleExpression |-> CronOfDate(prior[p].date),
                      State |-> "ENABLED"]}

C3_Witness ==
    /\ Done(1) /\ Requested(1, "query")
    /\ prior[1] = [id |-> Name1, date |-> Date2]
    /\ NameOf(1) = Name1
    /\ resp[1].statusCode = 200
    /\ \E d \in resp[1].body.rules : d.ScheduleExpression.args = <<5, 23>>

\* What C4 calls a failure of local validation.
FailsValidation(body) ==
    LET name == read_body_parameter(body, "id")
        date == read_body_parameter(body, "date")
        state == read_body_parameter(body, "state")
    IN \/ name = <<>>
       \/ \E k \in 1..Len(name) : name[k] \notin NameChars
       \/ body.action = "create" /\ (date = <<>> \/ ~Parses(date))
       \/ body.action = "update" /\ date = <<>> /\ state = ""
       \/ body.action = "update" /\ state \notin {"", "ENABLED", "DISABLED",
                                                  "enabled", "disabled"}

\* C4: a create, update or delete that fails local validation is answered
\* with 400 and has called neither the events service nor the lambda
\* service.
C4_ValidationBeforeCalls ==
    \A p \in Procs :
        ( /\ Done(p)
          /\ \E a \in {"create", "update", "delete"} : Requested(p, a)
          /\ FailsValidation(req[p].body) )
        => /\ resp[p].statusCode = 400
           /\ calls[p] = <<>>

\* C5: in a delete(id), delete_rule is called only right after a
\* remove_targets for id that returned a truthy response; when
\* remove_targets raises, the answer is 400 with the service's message,
\* delete_rule is not called and the rules are those of before.
C5_DeleteAfterDetach ==
    \A p \in Procs :
        Requested(p, "delete") =>
            /\ \A k \in 1..Len(calls[p]) :
                  calls[p][k].op = "delete_rule" =>
                      /\ k > 1
                      /\ calls[p][k-1] = Call("remove_targets", NameOf(p), "ok")
                      /\ calls[p][k].name = NameOf(p)
            /\ (Done(p) /\ ResultOf(p, "remove_targets") = "raised") =>
                  /\ resp[p].statusCode = 400
                  /\ resp[p].body.text =
                        (IF NameOf(p) \in DOMAIN pre[p].rules
                         THEN ErrInternal ELSE ErrNotFound)
                  /\ "delete_rule" \notin Ops(p)
                  /\ rules = pre[p].rules
                  /\ targets = pre[p].targets

C5_Witness ==
    /\ Done(1) /\ Requested(1, "delete")
    /\ NameOf(1) = Name2
    /\ ResultOf(1, "remove_targets") = "raised"
    /\ DOMAIN rules = {Name1}
    /\ resp[1].body.text = ErrNotFound

\* C6: an update that returned 200 changed only what the caller supplied:
\* without a date the schedule is the one of before, without a state the
\* state is the one of before, and in every case the targets are those of
\* before and neither put_targets nor remove_targets was called.
C6_UpdateFrame ==
    \A p \in Procs :
        (Done(p) /\ Requested(p, "update") /\ resp[p].statusCode = 200) =>
            /\ NameOf(p) \in DOMAIN pre[p].rules
            /\ DOMAIN rules = DOMAIN pre[p].rules
            /\ \A n \in DOMAIN rules : n # NameOf(p) => rules[n] = pre[p].rules[n]
            /\ DateOf(p) = <<>> =>
                  rules[NameOf(p)].ScheduleExpression =
                      pre[p].rules[NameOf(p)].ScheduleExpression
            /\ StateOf(p) = "" =>
                  rules[NameOf(p)].State = pre[p].rules[NameOf(p)].State
            /\ targets = pre[p].targets
            /\ Ops(p) \cap {"put_targets", "remove_targets"} = {}

C6_Witness ==
    /\ Done(1) /\ Requested(1, "update") /\ resp[1].statusCode = 200
    /\ NameOf(1) = Name1 /\ DateOf(1) = Date2 /\ StateOf(1) = ""
    /\ pre[1].rules[Name1] =
          [ScheduleExpression |-> CronOfDate(Date1), State |-> "DISABLED"]
    /\ rules[Name1] =
          [ScheduleExpression |-> CronOfDate(Date2), State |-> "DISABLED"]
    /\ Cardinality(targets[Name1]) = 1

\* C7: an update with a valid id and a non-empty date that does not parse
\* is answered with 400 and leaves the rule id as it was, with or without
\* a valid state.
C7_BadUpdateDateIs400 ==
    \A p \in Procs :
        ( /\ Done(p) /\ Requested(p, "update")
          /\ validate_name(NameOf(p))
          /\ DateOf(p) # <<>> /\ ~Parses(DateOf(p)) )
        => /\ resp[p].statusCode = 400
           /\ rules = pre[p].rules
           /\ targets = pre[p].targets

\* C8 as claimed: when remove_targets returns a falsy response, delete_rule
\* is not called and the handler ends without a return value.
C8_FalsyDetachReturnsNone ==
    \A p \in Procs :
        ( /\ Done(p) /\ Requested(p, "delete")
          /\ ResultOf(p, "remove_targets") = "falsy" )
        => /\ "delete_rule" \notin Ops(p)
           /\ resp[p] = NoResponse

\* C8 as amended: when remove_targets returns a falsy response, delete_rule
\* is not called and the handler answers 400 with the message of the
\* UnboundLocalError that reading delete_rule_response raises.
C8_FalsyDetachIs400 ==
    \A p \in Procs :
        ( /\ Done(p) /\ Requested(p, "delete")
          /\ ResultOf(p, "remove_targets") = "falsy" )
        => /\ "delete_rule" \notin Ops(p)
           /\ resp[p] = json_response(Text(MsgUnbound), 400)
           /\ rules = pre[p].rules
           /\ targets = pre[p].targets

C8_Witness ==
    /\ Done(1) /\ Requested(1, "delete")
    /\ NameOf(1) = Name1
    /\ ResultOf(1, "remove_targets") = "falsy"
    /\ Name1 \in DOMAIN rules
    /\ resp[1].statusCode = 400

\* C9: nothing guards the put_rule of an update against what happened since
\* its describe_rule: for a field the caller did not supply it writes the
\* value this invocation read, whatever the rule holds by then.
C9_UnguardedWrite ==
    [][ \A p \in Procs :
          ( /\ pc[p] = "put_rule" /\ pc'[p] = "done"
            /\ Requested(p, "update") /\ resp'[p].statusCode = 200 )
          => /\ DateOf(p) = <<>> =>
                   rules'[NameOf(p)].ScheduleExpression =
                       loc[p].query_result.ScheduleExpression
             /\ StateOf(p) = "" =>
                   rules'[NameOf(p)].State = loc[p].query_result.State ]_vars

\* Two overlapping updates of one rule, one of the date and one of the
\* state, both answered 200, and the date written by the first is gone.
C9_Witness ==
    /\ Done(1) /\ Done(2)
    /\ Requested(1, "update") /\ Requested(2, "update")
    /\ NameOf(1) = Name1 /\ NameOf(2) = Name1
    /\ DateOf(1) = Date2 /\ StateOf(1) = ""
    /\ DateOf(2) = <<>> /\ StateOf(2) = "DISABLED"
    /\ resp[1].statusCode = 200 /\ resp[2].statusCode = 200
    /\ pre[1] = pre[2]
    /\ pre[1].rules[Name1] =
          [ScheduleExpression |-> CronOfDate(Date1), State |-> "ENABLED"]
    /\ rules[Name1] =
          [ScheduleExpression |-> CronOfDate(Date1), State |-> "DISABLED"]

\* C10: whenever no request is in progress, every rule has exactly one
\* target, and that target's id is the rule's name.
C10_OneTargetPerRule ==
    (\A p \in Procs : Idle(p)) =>
        \A n \in DOMAIN rules :
            /\ Cardinality(targets[n]) = 1
            /\ \A t \in targets[n] : t.Id = n

====
